---- MODULE Spec2Model ----
(***************************************************************************)
(* HtmlPreprocessor (openmdao/visualization/htmlpp.py): a recursive,       *)
(* directive driven assembler of one HTML file.                            *)
(*                                                                         *)
(* Text is a sequence of lexemes (strings): the directive brackets, the    *)
(* hpp_ keywords, the flag words, the comment delimiters, whitespace,      *)
(* names and plain text.  The regular expression of parse_contents is run  *)
(* over lexemes, with its greedy choices and its backtracking; str.replace *)
(* is the replacement of every occurrence of a subsequence.                *)
(***************************************************************************)
EXTENDS Integers, Sequences, FiniteSets, TLC

VARIABLES
    files,             \* the file system's source files: pathname -> text
    output,            \* the output file: [exists, text]
    start_filename,    \* self.start_filename
    allow_overwrite,   \* allow_overwrite as given to the constructor, self.allow_overwrite
    var_dict,          \* self.var_dict: the names it binds
    loaded_filenames,  \* self.loaded_filenames
    pc,                \* "new", "ready" (constructed), "rejected" (__init__ raised)
    err,               \* the exception of the last call, or "none"
    res,               \* what the last run() computed: parse_contents' result and log
    runs,              \* calls of run() on this object so far
    writes,            \* writes of the output file made by the last run()
    first_out,         \* what the first successful run() of the object wrote
    stack,             \* the parse_contents calls in progress, outermost first
    phase              \* of a run() taken call by call: "idle", "running", "done", "failed"

vars == <<files, output, start_filename, allow_overwrite, var_dict,
          loaded_filenames, pc, err, res, runs, writes, first_out,
          stack, phase>>

(***************************************************************************)
(* Bounds of the model.                                                    *)
(***************************************************************************)
MaxSegs == 2      \* segments (text or one directive) in a start file of SpecExpand
MaxRuns == 2      \* calls of run() on one object
MaxDepth == 3     \* nesting of parse_contents calls before the interpreter gives up

(***************************************************************************)
(* Lexemes.                                                                *)
(***************************************************************************)
WS == {" ", "\n"}
CommentStarts == {"//", "/*", "<!--"}
CommentEnds == {"*/", "-->"}
Keywords == {"hpp_insert", "hpp_script", "hpp_style", "hpp_bin2b64", "hpp_pyvar"}
FlagWords == {"compress", "dup"}

IsWS(l) == l \in WS

\* The first index >= i of c that holds no whitespace (Len(c)+1 when none): \s*
RECURSIVE SkipWS(_, _)
SkipWS(c, i) ==
    IF i <= Len(c) /\ IsWS(c[i]) THEN SkipWS(c, i + 1) ELSE i

\* The first index >= i of c that holds whitespace (Len(c)+1 when none): \S+
RECURSIVE SkipNonWS(_, _)
SkipNonWS(c, i) ==
    IF i <= Len(c) /\ ~IsWS(c[i]) THEN SkipNonWS(c, i + 1) ELSE i

At(c, i) == IF i >= 1 /\ i <= Len(c) THEN c[i] ELSE ""

NoMatch == [ok |-> FALSE, first |-> 0, last |-> 0, full_match |-> <<>>,
            comment_start |-> "", keyword |-> "", arg |-> <<>>, flag |-> ""]

\* The match is complete at the >> of index p: \s*>>(\*/|-->)?
CloseAt(c, start, cs, kw, a1, a2, flag, p) ==
    LET last == IF At(c, p + 1) \in CommentEnds THEN p + 1 ELSE p
    IN  [ok |-> TRUE, first |-> start, last |-> last,
         full_match |-> SubSeq(c, start, last),
         comment_start |-> cs, keyword |-> kw,
         arg |-> SubSeq(c, a1, a2), flag |-> flag]

\* Mutant: any word is taken as the flag, (\S+)(\s+\S+)?\s*>>(\*/|-->)?
RECURSIVE MatchArgAnyFlag(_, _, _, _, _, _, _)
MatchArgAnyFlag(c, start, cs, kw, a1, e, k) ==
    IF k <= a1 THEN NoMatch
    ELSE IF k = e
    THEN LET w == SkipWS(c, k)
             p == SkipWS(c, w + 1)
         IN  IF w > k /\ At(c, w) \notin {"", ">>"} /\ At(c, p) = ">>"
             THEN CloseAt(c, start, cs, kw, a1, k - 1, At(c, w), p)
             ELSE IF At(c, w) = ">>"
             THEN CloseAt(c, start, cs, kw, a1, k - 1, "", w)
             ELSE MatchArgAnyFlag(c, start, cs, kw, a1, e, k - 1)
    ELSE IF At(c, k) = ">>"
    THEN CloseAt(c, start, cs, kw, a1, k - 1, "", k)
    ELSE MatchArgAnyFlag(c, start, cs, kw, a1, e, k - 1)

\* (\S+)(\s+compress|\s+dup)?\s*>>(\*/|-->)? with the argument c[a1..k-1]; e is
\* the end of the run of non-whitespace that starts at a1.  \S+ is greedy: the
\* longest argument is tried first, then shorter ones.
RECURSIVE MatchArg(_, _, _, _, _, _, _)
MatchArg(c, start, cs, kw, a1, e, k) ==
    IF k <= a1 THEN NoMatch
    ELSE IF k = e
    THEN LET w == SkipWS(c, k)
             p == SkipWS(c, w + 1)
         IN  IF w > k /\ At(c, w) \in FlagWords /\ At(c, p) = ">>"
             THEN CloseAt(c, start, cs, kw, a1, k - 1, At(c, w), p)
             ELSE IF At(c, w) = ">>"
             THEN CloseAt(c, start, cs, kw, a1, k - 1, "", w)
             ELSE MatchArg(c, start, cs, kw, a1, e, k - 1)
    ELSE IF At(c, k) = ">>"
    THEN CloseAt(c, start, cs, kw, a1, k - 1, "", k)
    ELSE MatchArg(c, start, cs, kw, a1, e, k - 1)

\* \s*<<\s*hpp_(insert|script|style|bin2b64|pyvar)\s+ from index j, then the rest
MatchCore(c, start, j, cs) ==
    LET j1 == SkipWS(c, j)
        j2 == SkipWS(c, j1 + 1)
        j3 == j2 + 1
        a1 == SkipWS(c, j3)
        e  == SkipNonWS(c, a1)
    IN  IF At(c, j1) = "<<" /\ At(c, j2) \in Keywords /\ IsWS(At(c, j3)) /\ e > a1
        THEN MatchArg(c, start, cs, At(c, j2), a1, e, e)
        ELSE NoMatch

\* keyword_regex tried at index i: (//|/\*|<\!--)? first
MatchAt(c, i) ==
    IF At(c, i) \in CommentStarts
    THEN MatchCore(c, i, i + 1, At(c, i))
    ELSE MatchCore(c, i, i, "")

\* re.finditer(keyword_regex, contents): the leftmost matches, none overlapping
RECURSIVE FindFrom(_, _)
FindFrom(c, i) ==
    IF i > Len(c) THEN <<>>
    ELSE LET m == MatchAt(c, i)
         IN  IF m.ok THEN <<m>> \o FindFrom(c, m.last + 1)
             ELSE FindFrom(c, i + 1)

FindAll(c) == FindFrom(c, 1)

\* old occurs in c at index i
OccursAt(c, old, i) ==
    /\ i + Len(old) - 1 <= Len(c)
    /\ SubSeq(c, i, i + Len(old) - 1) = old

\* contents.replace(old, new): every occurrence, left to right, none overlapping
RECURSIVE ReplaceFrom(_, _, _, _)
ReplaceFrom(c, old, new, i) ==
    IF i > Len(c) THEN <<>>
    ELSE IF OccursAt(c, old, i)
    THEN new \o ReplaceFrom(c, old, new, i + Len(old))
    ELSE <<c[i]>> \o ReplaceFrom(c, old, new, i + 1)

Replace(c, old, new) == IF old = <<>> THEN c ELSE ReplaceFrom(c, old, new, 1)

(***************************************************************************)
(* Python values.  A text value is [ty |-> "str"], raw bytes are           *)
(* [ty |-> "bytes"]; data is the sequence of lexemes either way.           *)
(***************************************************************************)
StrVal(d) == [ty |-> "str", data |-> d]
BytesVal(d) == [ty |-> "bytes", data |-> d]
Ok(v) == [err |-> "none", val |-> v]
Raise(e) == [err |-> e, val |-> StrVal(<<>>)]

\* str(x): a str is itself, bytes give their repr b'...'
PyStr(v) == IF v.ty = "str" THEN v ELSE StrVal(<<"b'">> \o v.data \o <<"'">>)

\* s.encode('utf8') and b.decode("ascii")
Encode(v) == BytesVal(v.data)
Decode(v) == StrVal(v.data)

\* zlib.compress(x): a bytes-like object is required
ZlibHeader == "x\\234"
ZlibCompress(v) ==
    IF v.ty # "bytes" THEN Raise("TypeError")
    ELSE Ok(BytesVal(<<ZlibHeader>> \o v.data))

\* base64.b64encode(x): a bytes-like object is required
B64Encode(v) ==
    IF v.ty # "bytes" THEN Raise("TypeError")
    ELSE Ok(BytesVal([i \in 1..Len(v.data) |-> "b64:" \o v.data[i]]))

(***************************************************************************)
(* The variables hpp_pyvar can name, by the name of their value.           *)
(***************************************************************************)
Values == {"hello", "directive", "True", "7", "2.5", "list"}

TypeOf(v) ==
    CASE v = "hello" -> "str"
      [] v = "directive" -> "str"
      [] v = "True" -> "bool"
      [] v = "7" -> "int"
      [] v = "2.5" -> "float"
      [] OTHER -> "list"

\* str(val)
Str(v) ==
    IF v = "directive" THEN <<"<<", "hpp_insert", " ", "a", ">>">>
    ELSE IF v = "list" THEN <<"[1,", " ", "2]">>
    ELSE <<v>>

\* json.dumps(val, default=self.json_dumps_default)
JsonDumps(v) ==
    CASE TypeOf(v) = "str" -> <<"\"">> \o Str(v) \o <<"\"">>
      [] v = "True" -> <<"true">>
      [] OTHER -> Str(v)

VarDict == [x |-> "hello", y |-> "directive", q |-> "True", n |-> "7",
            f |-> "2.5", l |-> "list"]

\* arg in self.var_dict, self.var_dict[arg]
Bound(vd, arg) == Len(arg) = 1 /\ arg[1] \in DOMAIN vd
Lookup(vd, arg) == vd[arg[1]]

(***************************************************************************)
(* load_file                                                               *)
(***************************************************************************)
Root == "/d/"
start_dirname == <<Root>>

\* Path(filename).is_absolute()
IsAbsolute(filename) == Len(filename) > 0 /\ filename[1] = Root

\* pathname: a Path when joined to start_dirname, the str given when absolute
Pathname(filename) ==
    IF ~IsAbsolute(filename)
    THEN [cls |-> "Path", s |-> start_dirname \o filename]
    ELSE [cls |-> "str", s |-> filename]

InList(x, list) == \E i \in 1..Len(list) : list[i] = x

IsFile(fs, s) == s \in DOMAIN fs

\* Mutant: load_file without the load-once rule, every call reads the file
LoadFileAlways(fs, filename, binary, allow_dup, loaded) ==
    LET pathname == Pathname(filename)
        appended == Append(loaded, pathname)
        file_contents == PyStr(IF binary THEN BytesVal(fs[pathname.s])
                                         ELSE StrVal(fs[pathname.s]))
        encoded == B64Encode(file_contents)
    IN  IF ~IsFile(fs, pathname.s)
        THEN [val |-> <<>>, loaded |-> appended, err |-> "FileNotFoundError"]
        ELSE IF binary
        THEN [val |-> IF encoded.err = "none"
                      THEN PyStr(Decode(encoded.val)).data ELSE <<>>,
              loaded |-> appended, err |-> encoded.err]
        ELSE [val |-> file_contents.data, loaded |-> appended, err |-> "none"]

\* load_file(filename, rlvl, binary, allow_dup) with self.loaded_filenames = loaded
\* on the file system fs: the value returned, the list afterwards, the exception
LoadFile(fs, filename, binary, allow_dup, loaded) ==
    LET pathname == Pathname(filename)
        appended == Append(loaded, pathname)
        file_contents == PyStr(IF binary THEN BytesVal(fs[pathname.s])
                                         ELSE StrVal(fs[pathname.s]))
        encoded == B64Encode(file_contents)
    IN  IF InList(pathname, loaded) /\ ~allow_dup
        THEN [val |-> <<>>, loaded |-> loaded, err |-> "none"]
        ELSE IF ~IsFile(fs, pathname.s)
        THEN [val |-> <<>>, loaded |-> appended, err |-> "FileNotFoundError"]
        ELSE IF binary
        THEN [val |-> IF encoded.err = "none"
                      THEN PyStr(Decode(encoded.val)).data ELSE <<>>,
              loaded |-> appended, err |-> encoded.err]
        ELSE [val |-> file_contents.data, loaded |-> appended, err |-> "none"]

(***************************************************************************)
(* parse_contents                                                          *)
(***************************************************************************)
ScriptOpen == "<script type=\"text/javascript\">"
ScriptClose == "</script>"
StyleOpen == "<style type=\"text/css\">"
StyleClose == "</style>"

Failed(loaded, e) ==
    [new_content |-> <<>>, do_compress |-> FALSE, loaded |-> loaded, err |-> e]

RECURSIVE ParseContents(_, _, _, _, _)

\* parse_contents applied to what load_file returned, when it returned
ParseLoaded(fs, vd, rlvl, lf) ==
    IF lf.err # "none"
    THEN [contents |-> <<>>, loaded |-> lf.loaded, err |-> lf.err, log |-> <<>>]
    ELSE ParseContents(fs, vd, lf.val, rlvl, lf.loaded)

\* self.parse_contents(self.load_file(arg, rlvl, allow_dup = allow_dup), rlvl)
LoadAndParse(fs, vd, arg, allow_dup, rlvl, loaded) ==
    ParseLoaded(fs, vd, rlvl, LoadFile(fs, arg, FALSE, allow_dup, loaded))

\* insert, script, style: new_content and do_compress from the expanded file r
FileBranch(m, r) ==
    CASE m.keyword = "hpp_insert" ->
             [new_content |-> r.contents, do_compress |-> FALSE,
              loaded |-> r.loaded, err |-> r.err]
      [] m.keyword = "hpp_script" ->
             IF r.err = "none" /\ r.contents # <<>>
             THEN [new_content |->
                       <<ScriptOpen, "\n">> \o r.contents \o <<"\n", ScriptClose>>,
                   do_compress |-> (m.flag = "compress"),
                   loaded |-> r.loaded, err |-> "none"]
             ELSE [new_content |-> r.contents, do_compress |-> FALSE,
                   loaded |-> r.loaded, err |-> r.err]
      [] OTHER ->
             [new_content |->
                  <<StyleOpen, "\n">> \o r.contents \o <<"\n", StyleClose>>,
              do_compress |-> FALSE, loaded |-> r.loaded, err |-> r.err]

\* bin2b64: new_content is what load_file(arg, binary = True) returned
BinaryBranch(lf) ==
    [new_content |-> lf.val, do_compress |-> FALSE,
     loaded |-> lf.loaded, err |-> lf.err]

\* pyvar
PyvarBranch(vd, m, loaded) ==
    IF ~Bound(vd, m.arg) THEN Failed(loaded, "ValueError")
    ELSE LET val == Lookup(vd, m.arg)
             raw_data == StrVal(JsonDumps(val))
             z == ZlibCompress(Encode(raw_data))
             b == B64Encode(z.val)
         IN  IF TypeOf(val) \in {"str", "bool", "int", "float"}
             THEN [new_content |-> Str(val),
                   do_compress |-> (m.flag = "compress"),
                   loaded |-> loaded, err |-> "none"]
             ELSE IF m.flag # "compress"
             THEN [new_content |-> raw_data.data, do_compress |-> FALSE,
                   loaded |-> loaded, err |-> "none"]
             ELSE IF z.err # "none" THEN Failed(loaded, z.err)
             ELSE IF b.err # "none" THEN Failed(loaded, b.err)
             ELSE [new_content |-> PyStr(Decode(b.val)).data,
                   do_compress |-> FALSE,
                   loaded |-> loaded, err |-> "none"]

\* Mutant: every file directive passes its dup flag to load_file
AllowDupAny(m) == m.flag = "dup"

\* allow_dup of the directive's load_file call: the dup flag, for script only
AllowDup(m) == m.keyword = "hpp_script" /\ m.flag = "dup"

\* The branch of one directive: new_content and do_compress
Resolve(fs, vd, m, rlvl, loaded) ==
    IF m.keyword \in {"hpp_insert", "hpp_script", "hpp_style"}
    THEN FileBranch(m, LoadAndParse(fs, vd, m.arg, AllowDup(m), rlvl, loaded))
    ELSE IF m.keyword = "hpp_bin2b64"
    THEN BinaryBranch(LoadFile(fs, m.arg, TRUE, FALSE, loaded))
    ELSE IF m.keyword = "hpp_pyvar"
    THEN PyvarBranch(vd, m, loaded)
    ELSE Failed(loaded, "ValueError")

\* The compression of new_content when do_compress is set
Compress(r) ==
    LET z == ZlibCompress(StrVal(r.new_content))
        b == B64Encode(z.val)
    IN  IF r.err # "none" \/ ~r.do_compress THEN r
        ELSE IF z.err # "none" THEN Failed(r.loaded, z.err)
        ELSE IF b.err # "none" THEN Failed(r.loaded, b.err)
        ELSE [r EXCEPT !.new_content = PyStr(Decode(b.val)).data]

\* One pass of the for loop, up to the replacement
Dispatch(fs, vd, m, rlvl, loaded) == Compress(Resolve(fs, vd, m, rlvl, loaded))

\* contents = contents.replace(full_match, new_content), when nothing was raised
AfterDirective(st, m, d) ==
    [contents |-> IF d.err = "none"
                  THEN Replace(st.contents, m.full_match, d.new_content)
                  ELSE st.contents,
     loaded |-> d.loaded,
     err |-> d.err,
     log |-> Append(st.log,
                [full_match |-> m.full_match, keyword |-> m.keyword,
                 arg |-> m.arg, flag |-> m.flag,
                 comment_start |-> m.comment_start,
                 new_content |-> d.new_content, err |-> d.err,
                 loaded_before |-> st.loaded, loaded_after |-> d.loaded])]

\* Mutant: a span already handled in this call is not dispatched again
RECURSIVE ForMatchesOnce(_, _, _, _, _, _)
ForMatchesOnce(fs, vd, matches, i, rlvl, st) ==
    IF i > Len(matches) \/ st.err # "none" THEN st
    ELSE IF \E k \in 1..(i - 1) : matches[k].full_match = matches[i].full_match
    THEN ForMatchesOnce(fs, vd, matches, i + 1, rlvl, st)
    ELSE ForMatchesOnce(fs, vd, matches, i + 1, rlvl,
             AfterDirective(st, matches[i],
                 Dispatch(fs, vd, matches[i], rlvl, st.loaded)))

\* The for loop over the matches found in the text parse_contents was given
RECURSIVE ForMatches(_, _, _, _, _, _)
ForMatches(fs, vd, matches, i, rlvl, st) ==
    IF i > Len(matches) \/ st.err # "none" THEN st
    ELSE ForMatches(fs, vd, matches, i + 1, rlvl,
             AfterDirective(st, matches[i],
                 Dispatch(fs, vd, matches[i], rlvl, st.loaded)))

\* parse_contents(contents, rlvl): the text returned, self.loaded_filenames
\* afterwards, the exception raised, and one log entry per directive handled
ParseContents(fs, vd, contents, rlvl, loaded) ==
    IF rlvl > MaxDepth
    THEN [contents |-> contents, loaded |-> loaded, err |-> "RecursionError",
          log |-> <<>>]
    ELSE ForMatches(fs, vd, FindAll(contents), 1, rlvl + 1,
             [contents |-> contents, loaded |-> loaded, err |-> "none",
              log |-> <<>>])

(***************************************************************************)
(* The inputs: the fragments beside the start file, and the start files.   *)
(***************************************************************************)
Directive(keyword, arg, flag) ==
    <<"<<", keyword, " ", arg>>
        \o (IF flag = "" THEN <<>> ELSE <<" ", flag>>) \o <<">>">>

\* The three comment forms, and the block comment written without spaces
LineComment(d) == <<"//", " ">> \o d
BlockComment(d) == <<"/*", " ">> \o d \o <<" ", "*/">>
HtmlComment(d) == <<"<!--", " ">> \o d \o <<" ", "-->">>
TightComment(d) == <<"/*">> \o d \o <<"*/">>

FragmentText(name) ==
    CASE name = "a" -> <<"A">>
      [] name = "b" -> <<"B">> \o Directive("hpp_insert", "a", "")
      [] name = "c" -> Directive("hpp_script", "c", "dup")
      [] OTHER -> <<>>

Fragments == {"a", "b", "c"}

\* The file system with the fragments and, when has_start, the start file
FileSystem(has_start, start_text) ==
    [p \in {<<Root, n>> : n \in Fragments \cup (IF has_start THEN {"start"} ELSE {})}
        |-> IF p[2] = "start" THEN start_text ELSE FragmentText(p[2])]

Segs ==
    { <<"t">>,
      Directive("hpp_insert", "a", ""),
      Directive("hpp_insert", "a", "dup"),
      Directive("hpp_insert", "a", "foo"),
      Directive("hpp_insert", "b", ""),
      Directive("hpp_insert", "c", ""),
      Directive("hpp_insert", "nope", ""),
      Directive("hpp_script", "a", ""),
      Directive("hpp_script", "a", "dup"),
      Directive("hpp_script", "a", "compress"),
      Directive("hpp_style", "a", ""),
      Directive("hpp_bin2b64", "a", ""),
      Directive("hpp_pyvar", "x", ""),
      Directive("hpp_pyvar", "x", "compress"),
      Directive("hpp_pyvar", "q", "compress"),
      Directive("hpp_pyvar", "y", ""),
      Directive("hpp_pyvar", "l", "compress"),
      Directive("hpp_pyvar", "zz", ""),
      Directive("hpp_foo", "a", ""),
      LineComment(Directive("hpp_insert", "a", "")) \o <<"\n">>,
      BlockComment(Directive("hpp_pyvar", "x", "")),
      HtmlComment(Directive("hpp_pyvar", "x", "")),
      TightComment(Directive("hpp_pyvar", "x", "")) }

\* The texts of at most n segments
RECURSIVE Buffers(_)
Buffers(n) ==
    IF n = 0 THEN {<<>>}
    ELSE LET shorter == Buffers(n - 1)
         IN  shorter \cup {b \o s : b \in shorter, s \in Segs}

\* The start files of Spec: one that expands, and one per way of failing
StartTexts ==
    { <<"t">>,
      <<"t">> \o Directive("hpp_insert", "b", ""),
      Directive("hpp_script", "a", "") \o Directive("hpp_pyvar", "x", ""),
      <<"t">> \o Directive("hpp_insert", "nope", ""),
      <<"t">> \o Directive("hpp_pyvar", "zz", ""),
      <<"t">> \o Directive("hpp_pyvar", "x", "compress"),
      Directive("hpp_insert", "a", "") \o Directive("hpp_bin2b64", "a", "") }

Absent == [exists |-> FALSE, text |-> <<>>]
File(text) == [exists |-> TRUE, text |-> text]
NoRes == [contents |-> <<>>, loaded |-> <<>>, err |-> "none", log |-> <<>>,
          before |-> <<>>, started |-> FALSE]
NoFirst == [set |-> FALSE, text |-> <<>>]

(***************************************************************************)
(* The object and the file system around it.                               *)
(***************************************************************************)
Init ==
    /\ \E has_start \in BOOLEAN, t \in StartTexts :
           /\ has_start \/ t = <<"t">>
           /\ files = FileSystem(has_start, t)
    /\ output \in {Absent, File(<<"old">>)}
    /\ start_filename \in {<<"start">>, <<Root, "start">>}
    /\ allow_overwrite = FALSE
    /\ var_dict = VarDict
    /\ loaded_filenames = <<>>
    /\ pc = "new"
    /\ err = "none"
    /\ res = NoRes
    /\ runs = 0
    /\ writes = 0
    /\ first_out = NoFirst
    /\ stack = <<>>
    /\ phase = "idle"

\* HtmlPreprocessor(start_filename, output_filename, allow_overwrite, var_dict):
\* the first object, or another one made after the earlier one has run
Construct ==
    /\ pc = "new" \/ (pc = "ready" /\ runs > 0)
    /\ \E overwrite \in BOOLEAN :
           /\ err' = IF ~IsFile(files, Pathname(start_filename).s)
                     THEN "FileNotFoundError"
                     ELSE IF output.exists /\ ~overwrite
                     THEN "FileExistsError"
                     ELSE "none"
           /\ pc' = IF err' = "none" THEN "ready" ELSE "rejected"
           /\ allow_overwrite' = overwrite
    /\ loaded_filenames' = <<>>
    /\ res' = NoRes
    /\ runs' = 0
    /\ writes' = 0
    /\ first_out' = NoFirst
    /\ UNCHANGED <<files, output, start_filename, var_dict, stack, phase>>

\* Another process creates the output file once the object is constructed
ExternalCreate ==
    /\ pc = "ready"
    /\ ~output.exists
    /\ output' = File(<<"other">>)
    /\ UNCHANGED <<files, start_filename, allow_overwrite, var_dict,
                   loaded_filenames, pc, err, res, runs, writes, first_out,
                   stack, phase>>

\* What run() computes before it looks at the output path:
\* self.parse_contents(self.load_file(self.start_filename))
Started(p, loaded) ==
    [contents |-> p.contents, loaded |-> p.loaded, err |-> p.err,
     log |-> p.log, before |-> loaded, started |-> TRUE]

Expand(fs, vd, filename, loaded) ==
    Started(LoadAndParse(fs, vd, filename, FALSE, 0, loaded), loaded)

\* Mutant: run() writes what it has as it goes, whatever the expansion raised
GuardAndWriteEager(r, out, overwrite) ==
    IF out.exists /\ ~overwrite
    THEN [err |-> IF r.err # "none" THEN r.err ELSE "FileExistsError",
          output |-> out, writes |-> 0]
    ELSE [err |-> r.err, output |-> File(r.contents), writes |-> 1]

\* Mutant: run() trusts the constructor's check of the output path
GuardAndWriteUnchecked(r, out, overwrite) ==
    IF r.err # "none" THEN [err |-> r.err, output |-> out, writes |-> 0]
    ELSE [err |-> "none", output |-> File(r.contents), writes |-> 1]

\* run(): the guard on the output path, then the one write
GuardAndWrite(r, out, overwrite) ==
    IF r.err # "none" THEN [err |-> r.err, output |-> out, writes |-> 0]
    ELSE IF out.exists /\ ~overwrite
    THEN [err |-> "FileExistsError", output |-> out, writes |-> 0]
    ELSE [err |-> "none", output |-> File(r.contents), writes |-> 1]

Run ==
    /\ pc = "ready"
    /\ runs < MaxRuns
    /\ LET r == Expand(files, var_dict, start_filename, loaded_filenames)
           w == GuardAndWrite(r, output, allow_overwrite)
       IN  /\ res' = r
           /\ loaded_filenames' = r.loaded
           /\ err' = w.err
           /\ output' = w.output
           /\ writes' = w.writes
           /\ first_out' = IF w.err = "none" /\ ~first_out.set
                           THEN [set |-> TRUE, text |-> r.contents]
                           ELSE first_out
    /\ runs' = runs + 1
    /\ UNCHANGED <<files, start_filename, allow_overwrite, var_dict, pc,
                   stack, phase>>

Next == Construct \/ ExternalCreate \/ Run

Spec == Init /\ [][Next]_vars

(***************************************************************************)
(* The expansion of every start file of at most MaxSegs segments, by an    *)
(* object constructed with allow_overwrite = True and no output file yet.  *)
(***************************************************************************)
InitExpand ==
    /\ files \in {FileSystem(TRUE, t) : t \in Buffers(MaxSegs)}
    /\ output = Absent
    /\ start_filename = <<"start">>
    /\ allow_overwrite = TRUE
    /\ var_dict = VarDict
    /\ loaded_filenames = <<>>
    /\ pc = "ready"
    /\ err = "none"
    /\ res = NoRes
    /\ runs = 0
    /\ writes = 0
    /\ first_out = NoFirst
    /\ stack = <<>>
    /\ phase = "idle"

NextExpand == Run

SpecExpand == InitExpand /\ [][NextExpand]_vars

(***************************************************************************)
(* run() taken one call at a time.  stack holds the parse_contents calls   *)
(* in progress, each with its buffer, the matches finditer found in it and *)
(* the position of its for loop; a file directive pushes a call, the end   *)
(* of a loop pops one.  The source files name each other in every way: a   *)
(* file that inserts itself, two files that include each other, with and   *)
(* without the dup flag.                                                   *)
(***************************************************************************)
CycleNames == {"p", "q"}

CycleTexts ==
    {<<"t">>}
      \cup {Directive(k, n, f) : k \in {"hpp_insert", "hpp_script", "hpp_style"},
                                 n \in CycleNames, f \in {"", "dup"}}
      \cup {Directive("hpp_pyvar", "x", "") \o Directive("hpp_insert", "p", ""),
            Directive("hpp_script", "p", "compress"),
            Directive("hpp_insert", "nope", "")}

CycleFileSystem(ts, tp, tq) ==
    [path \in {<<Root, n>> : n \in CycleNames \cup {"start"}}
        |-> CASE path[2] = "start" -> ts
              [] path[2] = "p" -> tp
              [] OTHER -> tq]

InitSteps ==
    /\ files \in {CycleFileSystem(ts, tp, tq) :
                     ts \in CycleTexts, tp \in CycleTexts, tq \in CycleTexts}
    /\ output = Absent
    /\ start_filename = <<"start">>
    /\ allow_overwrite = TRUE
    /\ var_dict = VarDict
    /\ loaded_filenames = <<>>
    /\ pc = "ready"
    /\ err = "none"
    /\ res = NoRes
    /\ runs = 0
    /\ writes = 0
    /\ first_out = NoFirst
    /\ stack = <<>>
    /\ phase = "idle"

\* The call of parse_contents from run() itself
NoCall == [keyword |-> "run", flag |-> ""]

\* One call of parse_contents: the file load_file was asked for, the directive
\* that asked, whether load_file read the file, the buffer, the matches of
\* finditer, the position of the for loop, self.loaded_filenames as it was
\* when the directive under way began
Frame(path, via, read, contents, loaded) ==
    [path |-> path, via |-> [keyword |-> via.keyword, flag |-> via.flag],
     read |-> read, contents |-> contents, matches |-> FindAll(contents),
     i |-> 1, log |-> <<>>, before |-> loaded]

Top == stack[Len(stack)]
Current == Top.matches[Top.i]
InLoop == phase = "running" /\ Top.i <= Len(Top.matches)
LoopDone == phase = "running" /\ Top.i > Len(Top.matches)

\* An exception leaves every call in progress and run() itself
Propagate(e, loaded) ==
    /\ phase' = "failed"
    /\ stack' = <<>>
    /\ err' = e
    /\ res' = [res EXCEPT !.err = e, !.loaded = loaded]
    /\ runs' = runs + 1
    /\ writes' = 0
    /\ UNCHANGED <<output, first_out>>

\* The replacement that ends one pass of the for loop of the call f
Advance(f, m, d) ==
    LET a == AfterDirective([contents |-> f.contents, loaded |-> f.before,
                             err |-> "none", log |-> f.log], m, d)
    IN  [f EXCEPT !.contents = a.contents, !.log = a.log, !.i = f.i + 1]

\* run() begins: self.load_file(self.start_filename), then parse_contents
RunBegin ==
    /\ pc = "ready"
    /\ phase # "running"
    /\ runs < MaxRuns
    /\ LET lf == LoadFile(files, start_filename, FALSE, FALSE, loaded_filenames)
       IN  /\ loaded_filenames' = lf.loaded
           /\ res' = [NoRes EXCEPT !.before = loaded_filenames, !.started = TRUE]
           /\ stack' = <<Frame(Pathname(start_filename), NoCall,
                               lf.loaded # loaded_filenames, lf.val,
                               lf.loaded)>>
           /\ phase' = "running"
    /\ UNCHANGED <<files, output, start_filename, allow_overwrite, var_dict,
                   pc, err, runs, writes, first_out>>

\* insert, script, style: load_file, then the nested call of parse_contents
EnterFile ==
    /\ InLoop
    /\ Current.keyword \in {"hpp_insert", "hpp_script", "hpp_style"}
    /\ LET m == Current
           lf == LoadFile(files, m.arg, FALSE, AllowDup(m), loaded_filenames)
       IN  /\ loaded_filenames' = lf.loaded
           /\ IF lf.err # "none" THEN Propagate(lf.err, lf.loaded)
              ELSE IF Len(stack) > MaxDepth
              THEN Propagate("RecursionError", lf.loaded)
              ELSE /\ stack' = Append(
                           [stack EXCEPT ![Len(stack)].before = loaded_filenames],
                           Frame(Pathname(m.arg), m, lf.loaded # loaded_filenames,
                                 lf.val, lf.loaded))
                   /\ UNCHANGED <<output, err, res, runs, writes, first_out, phase>>
    /\ UNCHANGED <<files, start_filename, allow_overwrite, var_dict, pc>>

\* bin2b64, pyvar: the directive is resolved within the call
ResolveValue ==
    /\ InLoop
    /\ Current.keyword \in {"hpp_bin2b64", "hpp_pyvar"}
    /\ LET m == Current
           d == Compress(IF m.keyword = "hpp_bin2b64"
                         THEN BinaryBranch(LoadFile(files, m.arg, TRUE, FALSE,
                                                    loaded_filenames))
                         ELSE PyvarBranch(var_dict, m, loaded_filenames))
       IN  /\ loaded_filenames' = d.loaded
           /\ IF d.err # "none" THEN Propagate(d.err, d.loaded)
              ELSE /\ stack' = [stack EXCEPT ![Len(stack)] =
                           Advance([Top EXCEPT !.before = loaded_filenames], m, d)]
                   /\ UNCHANGED <<output, err, res, runs, writes, first_out, phase>>
    /\ UNCHANGED <<files, start_filename, allow_overwrite, var_dict, pc>>

\* The for loop of a nested call is over: return contents, and the caller
\* wraps, compresses and replaces
Return ==
    /\ LoopDone
    /\ Len(stack) > 1
    /\ LET g == stack[Len(stack) - 1]
           m == g.matches[g.i]
           d == Compress(FileBranch(m, [contents |-> Top.contents,
                                        loaded |-> loaded_filenames,
                                        err |-> "none"]))
       IN  IF d.err # "none" THEN Propagate(d.err, loaded_filenames)
           ELSE /\ stack' = Append(SubSeq(stack, 1, Len(stack) - 2),
                                   Advance(g, m, d))
                /\ UNCHANGED <<output, err, res, runs, writes, first_out, phase>>
    /\ UNCHANGED <<files, start_filename, allow_overwrite, var_dict, pc,
                   loaded_filenames>>

\* The outermost call is over: the guard on the output path, then the write
Finish ==
    /\ LoopDone
    /\ Len(stack) = 1
    /\ LET r == [res EXCEPT !.contents = Top.contents, !.loaded = loaded_filenames,
                            !.err = "none", !.log = Top.log]
           w == GuardAndWrite(r, output, allow_overwrite)
       IN  /\ res' = r
           /\ err' = w.err
           /\ output' = w.output
           /\ writes' = w.writes
           /\ first_out' = IF w.err = "none" /\ ~first_out.set
                           THEN [set |-> TRUE, text |-> r.contents]
                           ELSE first_out
           /\ phase' = IF w.err = "none" THEN "done" ELSE "failed"
    /\ stack' = <<>>
    /\ runs' = runs + 1
    /\ UNCHANGED <<files, start_filename, allow_overwrite, var_dict, pc,
                   loaded_filenames>>

RunSteps == EnterFile \/ ResolveValue \/ Return \/ Finish

NextSteps == RunBegin \/ EnterFile \/ ResolveValue \/ Return \/ Finish

\* run() is synchronous code: a call under way takes its next step
SpecSteps == InitSteps /\ [][NextSteps]_vars /\ WF_vars(RunSteps)

(***************************************************************************)
(* Properties.                                                             *)
(***************************************************************************)
StartPath == <<Root, "start">>
StartText == files[StartPath]
Log == res.log

Occurs(c, sub) == \E i \in 1..Len(c) : OccursAt(c, sub, i)
Lexemes(c) == {c[i] : i \in 1..Len(c)}

RunStep == runs' = runs + 1
ConstructStep == runs' # runs + 1 /\ output' = output

\* C1: all-or-nothing write.  A run() writes the output file at most once, and
\* only the text of an expansion that raised nothing; a run() whose expansion
\* raised leaves the output file as it was, whether or not it may overwrite.
C1_AllOrNothing ==
    [][ RunStep =>
          /\ writes' <= 1
          /\ res'.err # "none" => (output' = output /\ writes' = 0)
          /\ output' # output =>
                (res'.err = "none" /\ writes' = 1 /\ output' = File(res'.contents))
          /\ writes' = 1 => (res'.err = "none" /\ output' = File(res'.contents))
      ]_vars

\* A run() that could overwrite failed on a missing fragment, and the older
\* output file is still there
C1_Witness ==
    /\ pc = "ready" /\ runs = 1 /\ allow_overwrite
    /\ res.err = "FileNotFoundError" /\ Len(res.log) = 1
    /\ writes = 0
    /\ output = File(<<"old">>)

InsertedTwice(i, j) ==
    /\ i < j
    /\ Log[i].keyword = "hpp_insert" /\ Log[j].keyword = "hpp_insert"
    /\ Log[i].arg = Log[j].arg
    /\ Log[i].flag = ""
    /\ ~InList(Pathname(Log[i].arg), Log[i].loaded_before)

\* C3 as claimed: the second insert of a file resolves to nothing without dup,
\* and to the same full content as the first with dup
C3_Claim ==
    (runs = 1 /\ res.err = "none") =>
        \A i, j \in 1..Len(Log) :
            InsertedTwice(i, j) =>
                /\ Log[j].flag = "" => Log[j].new_content = <<>>
                /\ Log[j].flag = "dup" => Log[j].new_content = Log[i].new_content

\* C3: duplicate suppression for insert.  The second insert of a file resolves
\* to empty content, with the dup flag as without it: insert does not pass the
\* flag to load_file.
C3_InsertIgnoresDup ==
    (runs = 1 /\ res.err = "none") =>
        \A i, j \in 1..Len(Log) :
            (InsertedTwice(i, j) /\ Log[j].flag \in {"", "dup"}) =>
                Log[j].new_content = <<>>

\* a is inserted twice, the second time with dup: the first gives its text, the
\* second nothing
C3_Witness ==
    /\ runs = 1 /\ res.err = "none" /\ Len(Log) = 2
    /\ InsertedTwice(1, 2)
    /\ Log[2].flag = "dup"
    /\ Log[1].new_content = <<"A">>
    /\ Log[2].new_content = <<>>

\* C4 as claimed: a run() starts with an empty registry, and a second run() of
\* an object that may overwrite writes what the first one wrote
C4_Claim ==
    (runs = 2 /\ allow_overwrite /\ err = "none" /\ first_out.set) =>
        /\ res.before = <<>>
        /\ output = File(first_out.text)

\* C5 as claimed: what parse_contents returns holds no directive
C5_Claim ==
    (runs = 1 /\ res.err = "none") => FindAll(res.contents) = <<>>

UnknownFlagDirective == Directive("hpp_insert", "a", "foo")

DocumentedComments ==
    { LineComment(Directive("hpp_insert", "a", "")),
      BlockComment(Directive("hpp_pyvar", "x", "")),
      HtmlComment(Directive("hpp_pyvar", "x", "")) }

\* C7 as claimed: for a start file that is one comment of a documented form
\* (and the end of its line), the span matched is the whole comment, and the
\* output holds no comment delimiter
C7_Claim ==
    \A cm \in DocumentedComments :
        (runs = 1 /\ res.err = "none" /\ StartText \in {cm, cm \o <<"\n">>}) =>
            /\ Len(Log) = 1
            /\ Log[1].full_match = cm
            /\ Lexemes(output.text) \cap (CommentStarts \cup CommentEnds) = {}

\* What the flag compress promises of its text: base64 undone, then zlib undone
B64Decode(d) ==
    [i \in 1..Len(d) |->
        CHOOSE l \in {ZlibHeader} \cup UNION {Lexemes(Str(v)) : v \in Values} :
            "b64:" \o l = d[i]]
ZlibDecompress(d) == Tail(d)

\* C8 as claimed: pyvar of a name bound to a str, bool, int or float resolves,
\* with compress to text that decodes and decompresses to str(value), without
\* it to str(value)
C8_Claim ==
    runs = 1 =>
        \A i \in 1..Len(Log) :
            (/\ Log[i].keyword = "hpp_pyvar"
             /\ Bound(var_dict, Log[i].arg)
             /\ TypeOf(Lookup(var_dict, Log[i].arg)) \in {"str", "bool", "int", "float"}) =>
                /\ Log[i].err = "none"
                /\ IF Log[i].flag = "compress"
                   THEN ZlibDecompress(B64Decode(Log[i].new_content))
                            = Str(Lookup(var_dict, Log[i].arg))
                   ELSE Log[i].new_content = Str(Lookup(var_dict, Log[i].arg))

IsFileDirective(e) == e.keyword \in {"hpp_insert", "hpp_script", "hpp_style", "hpp_bin2b64"}

\* C9 as claimed: a directive whose load_file raised FileNotFoundError, or whose
\* load was suppressed as a duplicate, leaves the registry as it was
C9_Claim ==
    runs = 1 =>
        \A i \in 1..Len(Log) :
            /\ Log[i].err = "FileNotFoundError" =>
                  Log[i].loaded_after = Log[i].loaded_before
            /\ (/\ IsFileDirective(Log[i])
                /\ InList(Pathname(Log[i].arg), Log[i].loaded_before)
                /\ ~AllowDup(Log[i])) =>
                  Log[i].loaded_after = Log[i].loaded_before

\* C10 as claimed: a later occurrence of a span already resolved in this call
\* loads nothing, registers nothing and raises nothing
C10_Claim ==
    runs = 1 =>
        \A i, j \in 1..Len(Log) :
            (i < j /\ Log[i].full_match = Log[j].full_match) =>
                /\ Log[j].loaded_after = Log[j].loaded_before
                /\ Log[j].err = "none"

\* C10: within one call the dispatcher runs once per match, identical spans
\* included: the log has one entry per match of the start text, and a later
\* identical script ... dup loads and registers the file again.  When every
\* match is the same span and the first result does not bring the span back,
\* the output is the start text with every occurrence replaced by that result.
C10_DispatchPerMatch ==
    (runs = 1 /\ res.err = "none") =>
        /\ Len(Log) = Len(FindAll(StartText))
        /\ \A i, j \in 1..Len(Log) :
              (/\ i < j /\ Log[i].full_match = Log[j].full_match
               /\ Log[j].keyword = "hpp_script" /\ Log[j].flag = "dup") =>
                  Log[j].loaded_after
                      = Append(Log[j].loaded_before, Pathname(Log[j].arg))
        /\ (/\ Len(Log) >= 2
            /\ \A i \in 1..Len(Log) : Log[i].full_match = Log[1].full_match
            /\ ~Occurs(Replace(StartText, Log[1].full_match, Log[1].new_content),
                       Log[1].full_match)) =>
              res.contents
                  = Replace(StartText, Log[1].full_match, Log[1].new_content)

\* The same script ... dup twice: two dispatches, the file registered twice,
\* both occurrences replaced
C10_Witness ==
    /\ runs = 1 /\ res.err = "none" /\ Len(Log) = 2
    /\ Log[1].full_match = Log[2].full_match
    /\ Log[2].keyword = "hpp_script" /\ Log[2].flag = "dup"
    /\ Len(loaded_filenames) = 3
    /\ loaded_filenames[2] = loaded_filenames[3]
    /\ res.contents = Log[1].new_content \o Log[1].new_content

\* The first run() taken call by call ends as the run() taken at once does
StepsAgree ==
    (phase \in {"done", "failed"} /\ runs = 1) =>
        LET e == Expand(files, var_dict, start_filename, <<>>)
        IN  /\ res.err = e.err
            /\ res.loaded = e.loaded
            /\ loaded_filenames = e.loaded
            /\ e.err = "none" => (res.contents = e.contents /\ res.log = e.log)

\* The call k expands a file that a call around it is expanding already
Reentered(k) ==
    /\ stack[k].read
    /\ \E j \in 1..(k - 1) : stack[j].read /\ stack[j].path = stack[k].path

Ended == phase \in {"done", "failed"}

Work(st, k) ==
    IF k > Len(st) THEN 0
    ELSE 2 * (Len(st[k].matches) - st[k].i + 1) + (IF k < Len(st) THEN 0 ELSE 1)

\* s has less left to do than t, the outermost call counting first
LessWork(s, t) ==
    \E k \in 1..(MaxDepth + 1) :
        /\ Work(s, k) < Work(t, k)
        /\ \A j \in 1..(k - 1) : Work(s, j) = Work(t, j)

\* A run() under way has a step to take: a directive to resolve, or a return
CanStep ==
    /\ stack # <<>>
    /\ InLoop => Current.keyword \in Keywords

\* Some source file holds a script directive with the dup flag
HoldsDupScript ==
    \E path \in DOMAIN files : \E i \in 1..Len(FindAll(files[path])) :
        AllowDup(FindAll(files[path])[i])

====
